---- MODULE Spec2Model ----
(***************************************************************************)
(* State-machine model of functions.py: the SSP component extractor with   *)
(* its lru_cache, the base template manager (deep copy, three patches,     *)
(* append), the scenario name generator and the batch driver of            *)
(* GCAMConfigurationGenerator (sequential and thread-pool execution).      *)
(*                                                                         *)
(* Python strings are TLA+ strings (TLC evaluates \o, Len, SubSeq, Head    *)
(* and Tail on them); Python lists and tuples are sequences.               *)
(***************************************************************************)
EXTENDS Integers, Sequences, FiniteSets, TLC

VARIABLES
    parameters,       \* GCAMConfigurationGenerator.parameters (ScenarioParameters)
    srcFiles,         \* the directory of {ssp}_config.xml files: ssp -> file state
    cache,            \* the lru_cache of extract_ssp_components, LRU first, MRU last
    reads,            \* ssp -> number of times its source file was opened for parsing
    heap,             \* live ET.Element roots: reference -> document
    outFiles,         \* the output directory: file name -> content written so far
    faultOf,          \* environment: file name -> "none" | "open" | "write"
    call,             \* the arguments of the generate_all_configs call in progress
    phase,            \* position of the driver
    scenarios,        \* scenario_combinations of the call in progress
    task,             \* per-tuple pipeline: position and locals
    generated_files,  \* generated_files of the call in progress
    firstRun,         \* what the first call returned and wrote (kept by the caller)
    client,           \* threads calling extract_ssp_components directly
    lastSeen,         \* key -> entries the last completed call for it returned
    touched,          \* key -> keys looked up or stored since the key was last used
    fn                \* one application of a pure function: name, arguments, result

vars == <<parameters, srcFiles, cache, reads, heap, outFiles, faultOf, call, phase,
          scenarios, task, generated_files, firstRun, client, lastSeen, touched, fn>>

-----------------------------------------------------------------------------
(* Python string and list helpers *)

\* str.startswith(prefix)
StartsWith(s, prefix) ==
    /\ Len(s) >= Len(prefix)
    /\ SubSeq(s, 1, Len(prefix)) = prefix

\* str.replace(old, "") for a non-empty old: every occurrence, left to right
RECURSIVE Remove(_, _)
Remove(s, old) ==
    IF Len(s) = 0 THEN ""
    ELSE IF StartsWith(s, old) THEN Remove(SubSeq(s, Len(old) + 1, Len(s)), old)
    ELSE Head(s) \o Remove(Tail(s), old)

RECURSIVE LStrip(_)
LStrip(s) == IF Len(s) > 0 /\ Head(s) = " " THEN LStrip(Tail(s)) ELSE s

RECURSIVE RStrip(_)
RStrip(s) ==
    IF Len(s) > 0 /\ SubSeq(s, Len(s), Len(s)) = " "
    THEN RStrip(SubSeq(s, 1, Len(s) - 1))
    ELSE s

\* str.strip() (blanks are the only whitespace of the modelled texts)
Strip(s) == RStrip(LStrip(s))

\* [x for x in xs if x in allowed], order of xs kept
RECURSIVE Restrict(_, _)
Restrict(xs, allowed) ==
    IF xs = <<>> THEN <<>>
    ELSE (IF Head(xs) \in allowed THEN <<Head(xs)>> ELSE <<>>) \o Restrict(Tail(xs), allowed)

Range(xs) == {xs[i] : i \in 1..Len(xs)}

\* the concatenation of a sequence of sequences
RECURSIVE Flatten(_)
Flatten(xss) == IF xss = <<>> THEN <<>> ELSE Head(xss) \o Flatten(Tail(xss))

\* the concatenation of a sequence of strings
RECURSIVE Join(_)
Join(ss) == IF ss = <<>> THEN "" ELSE Head(ss) \o Join(Tail(ss))

\* Optional[List[str]]: None, or a list
NoneVal == [none |-> TRUE, list |-> <<>>]
Some(list) == [none |-> FALSE, list |-> list]

-----------------------------------------------------------------------------
(* ScenarioParameters *)

DefaultSsps == <<"SSP1", "SSP2", "SSP3", "SSP4", "SSP5">>
DefaultRcps == <<"2p6", "4p5", "6p0", "8p5">>
DefaultRates == <<0, 25, 50, 75, 100>>
DefaultTech == <<"Basic", "Advanced">>
DefaultSupply == <<"Low", "Medium", "High">>
DefaultAlloc == <<"Market-driven", "Regulatory">>

ScenarioParameters(ssps, rcps, rates, tech, supply, alloc) ==
    [ssps |-> ssps, rcps |-> rcps, pr_adoption_rates |-> rates,
     technology_levels |-> tech, supply_capacities |-> supply,
     allocation_regulations |-> alloc]

DefaultParameters ==
    ScenarioParameters(DefaultSsps, DefaultRcps, DefaultRates, DefaultTech,
                       DefaultSupply, DefaultAlloc)

total_scenarios(p) ==
    Len(p.ssps) * Len(p.rcps) * Len(p.pr_adoption_rates) * Len(p.technology_levels)
        * Len(p.supply_capacities) * Len(p.allocation_regulations)

-----------------------------------------------------------------------------
(* GCAMConfigurationGenerator: names and combinations *)

\* mutant: the technology tier is left out of the name
NameWithoutTech(ssp, rcp, pr_rate, tech, supply, allocation) ==
    LET supply_short == SubSeq(supply, 1, 1)
        alloc_short == IF allocation = "Regulatory" THEN "Reg" ELSE "Mkt"
    IN  ssp \o "_" \o rcp \o "_" \o supply_short \o "_" \o alloc_short
            \o "_PR" \o ToString(pr_rate)

\* mutant: the emissions pathway is left out of the name
NameWithoutRcp(ssp, rcp, pr_rate, tech, supply, allocation) ==
    LET tech_short == IF tech = "Advanced" THEN "Tech" ELSE "Basic"
        supply_short == SubSeq(supply, 1, 1)
        alloc_short == IF allocation = "Regulatory" THEN "Reg" ELSE "Mkt"
    IN  ssp \o "_" \o tech_short \o "_" \o supply_short \o "_" \o alloc_short
            \o "_PR" \o ToString(pr_rate)

generate_scenario_name(ssp, rcp, pr_rate, tech, supply, allocation) ==
    LET tech_short == IF tech = "Advanced" THEN "Tech" ELSE "Basic"
        supply_short == SubSeq(supply, 1, 1)
        alloc_short == IF allocation = "Regulatory" THEN "Reg" ELSE "Mkt"
    IN  ssp \o "_" \o rcp \o "_" \o tech_short \o "_" \o supply_short \o "_"
            \o alloc_short \o "_PR" \o ToString(pr_rate)

NameOf(t) == generate_scenario_name(t[1], t[2], t[3], t[4], t[5], t[6])

\* itertools.product of six lists: the last list varies fastest
Product6(a, b, c, d, e, f) ==
    Flatten([i1 \in 1..Len(a) |->
     Flatten([i2 \in 1..Len(b) |->
      Flatten([i3 \in 1..Len(c) |->
       Flatten([i4 \in 1..Len(d) |->
        Flatten([i5 \in 1..Len(e) |->
         [i6 \in 1..Len(f) |-> <<a[i1], b[i2], c[i3], d[i4], e[i5], f[i6]>>]])])])])])

\* `if ssp_filter:` is taken for a non-empty list only: None and [] both skip it
Truthy(ssp_filter) == ~ssp_filter.none /\ ssp_filter.list # <<>>

_generate_combinations(p, ssp_filter) ==
    LET filtered_ssps ==
            IF Truthy(ssp_filter) THEN Restrict(p.ssps, Range(ssp_filter.list))
            ELSE p.ssps
    IN  Product6(filtered_ssps, p.rcps, p.pr_adoption_rates, p.technology_levels,
                 p.supply_capacities, p.allocation_regulations)

-----------------------------------------------------------------------------
(* Documents: an ET.Element root with its three addressable sections *)

Value(name, text) == [tag |-> "Value", name |-> name, text |-> text]
Comment(text) == [tag |-> "Comment", name |-> "", text |-> text]
Section(kids) == [present |-> TRUE, kids |-> kids]
\* root.find(tag) is None
Absent == [present |-> FALSE, kids |-> <<>>]

\* the reference under which the manager holds template_root
TemplateRef == 0

\* mutant: no copy is made, the caller gets the source itself
NoCopy(h, src, new) == [heap |-> h, ref |-> src]

\* copy.deepcopy(root): a new root, equal to the source, under reference new
deepcopy(h, src, new) ==
    [heap |-> [r \in DOMAIN h \cup {new} |-> IF r = new THEN h[src] ELSE h[r]],
     ref |-> new]

\* index of the first element of kids with tag "Value" and the given name, 0 if none
FirstValue(kids, name) ==
    LET hits == {i \in 1..Len(kids) : kids[i].tag = "Value" /\ kids[i].name = name}
    IN  IF hits = {} THEN 0 ELSE CHOOSE i \in hits : \A j \in hits : i <= j

\* the loop `for element in section: if ...: element.text = text; break`
SetFirstValue(section, name, text) ==
    LET i == FirstValue(section.kids, name)
    IN  IF ~section.present \/ i = 0 THEN section
        ELSE [section EXCEPT !.kids[i].text = text]

\* mutant: one mapping for every rcp, without the 6p0 regime
SpaCodeOneRegime(ssp, rcp) ==
    CASE ssp = "SSP1" -> "1"
      [] ssp = "SSP2" -> "23"
      [] ssp = "SSP3" -> "23"
      [] ssp = "SSP4" -> "4"
      [] ssp = "SSP5" -> "5"
      [] OTHER -> "0"

_get_spa_code(ssp, rcp) ==
    IF rcp = "6p0"
    THEN CASE ssp = "SSP1" -> "1"
           [] ssp = "SSP2" -> "235"
           [] ssp = "SSP3" -> "235"
           [] ssp = "SSP4" -> "4"
           [] ssp = "SSP5" -> "0"
           [] OTHER -> "0"
    ELSE CASE ssp = "SSP1" -> "1"
           [] ssp = "SSP2" -> "23"
           [] ssp = "SSP3" -> "23"
           [] ssp = "SSP4" -> "4"
           [] ssp = "SSP5" -> "5"
           [] OTHER -> "0"

_update_scenario_name(h, root, scenario_name) ==
    [h EXCEPT ![root].Strings = SetFirstValue(@, "scenarioName", scenario_name)]

_update_policy_target(h, root, rcp, ssp) ==
    LET policy_file == "../input/policy/policy_target_" \o rcp \o "_spa"
                           \o _get_spa_code(ssp, rcp) \o ".xml"
    IN  [h EXCEPT ![root].Files = SetFirstValue(@, "policy-target-file", policy_file)]

_update_database_location(h, root, scenario_name) ==
    [h EXCEPT ![root].Files =
        SetFirstValue(@, "xmldb-location", "../output/db_" \o scenario_name)]

\* returns the heap after the call and the reference of the returned root
create_scenario_config(h, new, scenario_name, rcp, ssp) ==
    LET c == deepcopy(h, TemplateRef, new)
        h1 == _update_scenario_name(c.heap, c.ref, scenario_name)
        h2 == _update_policy_target(h1, c.ref, rcp, ssp)
        h3 == _update_database_location(h2, c.ref, scenario_name)
    IN  [heap |-> h3, ref |-> c.ref]

\* the branch of append_ssp_components that emits a comment node
IsCommentEntry(e) == StartsWith(e[1], "COMMENT_") /\ StartsWith(e[2], "<!--")

\* mutant: the name prefix alone decides that an entry is a comment
NodeByNameOnly(e) ==
    IF StartsWith(e[1], "COMMENT_")
    THEN Comment(" " \o Strip(Remove(Remove(e[2], "<!--"), "-->")) \o " ")
    ELSE Value(e[1], e[2])

\* the node one (name, path) entry is appended as
NodeOf(e) ==
    IF IsCommentEntry(e)
    THEN Comment(" " \o Strip(Remove(Remove(e[2], "<!--"), "-->")) \o " ")
    ELSE Value(e[1], e[2])

append_ssp_components(h, root, components) ==
    IF ~h[root].ScenarioComponents.present THEN h
    ELSE [h EXCEPT ![root].ScenarioComponents.kids =
              @ \o [i \in 1..Len(components) |-> NodeOf(components[i])]]

\* ET.tostring(root, encoding="unicode"), without prettification
SerializeNode(n) ==
    IF n.tag = "Comment" THEN "<!--" \o n.text \o "-->"
    ELSE "<Value name=\"" \o n.name \o "\">" \o n.text \o "</Value>"

SerializeSection(tag, section) ==
    IF ~section.present THEN ""
    ELSE "<" \o tag \o ">"
             \o Join([i \in 1..Len(section.kids) |-> SerializeNode(section.kids[i])])
             \o "</" \o tag \o ">"

tostring(doc) ==
    "<Configuration>" \o SerializeSection("Strings", doc.Strings)
        \o SerializeSection("Files", doc.Files)
        \o SerializeSection("ScenarioComponents", doc.ScenarioComponents)
        \o "</Configuration>"

-----------------------------------------------------------------------------
(* SSPComponentExtractor *)

Maxsize == 10

\* a source file: whether it exists, whether it parses, its Value elements in
\* document order and the texts of the comments directly under its root
SourceFile(exists, wellformed, values, comments) ==
    [exists |-> exists, wellformed |-> wellformed, values |-> values,
     comments |-> comments]

MissingFile == SourceFile(FALSE, FALSE, <<>>, <<>>)
MalformedFile == SourceFile(TRUE, FALSE, <<>>, <<>>)

\* ET.parse(path).getroot(): the default TreeBuilder keeps no comments in the tree
ParseTree(file) == [values |-> file.values, comments |-> <<>>]

UpperCase == "ABCDEFGHIJKLMNOPQRSTUVWXYZ"
LowerCase == "abcdefghijklmnopqrstuvwxyz"

\* str.lower() followed by .replace(' ', '_').replace('-', '_')
RECURSIVE CommentKey(_)
CommentKey(s) ==
    IF Len(s) = 0 THEN ""
    ELSE LET c == Head(s)
             up == {i \in 1..Len(UpperCase) : SubSeq(UpperCase, i, i) = c}
             d == IF up # {} THEN LET i == CHOOSE i \in up : TRUE
                                  IN  SubSeq(LowerCase, i, i)
                  ELSE IF c = " " \/ c = "-" THEN "_" ELSE c
         IN  d \o CommentKey(Tail(s))

\* the body of extract_ssp_components: the entries read from one source file
ReadSspFile(file) ==
    IF ~file.exists THEN <<>>
    ELSE IF ~file.wellformed THEN <<>>
    ELSE LET tree == ParseTree(file)
             vals == Flatten([i \in 1..Len(tree.values) |->
                        IF tree.values[i].name # "" /\ tree.values[i].text # ""
                        THEN << <<tree.values[i].name, Strip(tree.values[i].text)>> >>
                        ELSE <<>>])
             cmts == [i \in 1..Len(tree.comments) |->
                        <<"COMMENT_" \o CommentKey(Strip(tree.comments[i])),
                          "<!-- " \o Strip(tree.comments[i]) \o " -->">>]
         IN  vals \o cmts

\* the key lru_cache makes of the call's arguments (self, ssp)
CacheKey(inst, ssp) == <<inst, ssp>>

CacheIndex(c, key) ==
    LET hits == {i \in 1..Len(c) : c[i].key = key}
    IN  IF hits = {} THEN 0 ELSE CHOOSE i \in hits : TRUE

CacheHas(c, key) == CacheIndex(c, key) # 0

CacheVal(c, key) == c[CacheIndex(c, key)].val

\* a hit moves the link to the most recently used end
CacheTouch(c, key) ==
    LET i == CacheIndex(c, key)
    IN  SubSeq(c, 1, i - 1) \o SubSeq(c, i + 1, Len(c)) \o <<c[i]>>

\* mutant: a full cache drops its newest entry instead of its oldest
CacheStoreEvictNewest(c, key, val) ==
    IF CacheHas(c, key) THEN c
    ELSE IF Len(c) < Maxsize THEN Append(c, [key |-> key, val |-> val])
    ELSE Append(SubSeq(c, 1, Len(c) - 1), [key |-> key, val |-> val])

\* after the wrapped function returned: keep an entry another thread added
\* meanwhile, else add a link, evicting the oldest one when the cache is full
CacheStore(c, key, val) ==
    IF CacheHas(c, key) THEN c
    ELSE IF Len(c) < Maxsize THEN Append(c, [key |-> key, val |-> val])
    ELSE Append(Tail(c), [key |-> key, val |-> val])

-----------------------------------------------------------------------------
(* Inputs: base templates, source files, component entries *)

FullTemplate ==
    [Strings |-> Section(<<Value("scenarioName", "reuse100")>>),
     Files |-> Section(<<Value("xmldb-location", "../output/database_basexdb"),
                         Value("policy-target-file",
                               "../input/policy/policy_target_4p5_spa23.xml")>>),
     ScenarioComponents |-> Section(<<Value("base", "../input/base.xml")>>)]

\* templates that omit a region or a field: the patches and the append skip it
Templates ==
    {FullTemplate,
     [FullTemplate EXCEPT !.Strings = Absent],
     [FullTemplate EXCEPT !.Files = Section(<<Value("xmldb-location", "db")>>)],
     [FullTemplate EXCEPT !.ScenarioComponents = Absent]}

EntryChoices ==
    {<<"socio", "../input/ssp1.xml">>,
     <<"COMMENT_land_use", "<!-- Land-Use -->">>,
     <<"COMMENT_plain", "../input/plain.xml">>,
     <<"note", "<!-- kept as data -->">>}

MaxEntries == 3

EntryLists == UNION {[1..n -> EntryChoices] : n \in 0..MaxEntries}

DomainTuples ==
    Range(DefaultSsps) \X Range(DefaultRcps) \X Range(DefaultRates)
        \X Range(DefaultTech) \X Range(DefaultSupply) \X Range(DefaultAlloc)

ParameterChoices ==
    {DefaultParameters,
     ScenarioParameters(<<"SSP1", "SSP2", "SSP3">>, <<"2p6", "6p0">>, <<0, 100>>,
                        <<"Advanced">>, <<"Low", "High">>, <<"Regulatory">>),
     ScenarioParameters(<<"SSP5", "SSP2">>, <<"8p5">>, <<50>>, <<"Basic", "Advanced">>,
                        <<"Medium">>, <<"Market-driven", "Regulatory">>)}

FilterChoices ==
    {NoneVal} \cup
    {Some(l) : l \in {<<>>, <<"SSP1">>, <<"SSP2">>, <<"SSP2", "SSP1">>, <<"SSP9">>,
                      <<"SSP3", "SSP9", "SSP3">>,
                      <<"SSP5", "SSP4", "SSP3", "SSP2", "SSP1", "SSP0">>}}

-----------------------------------------------------------------------------
(* Values of the variables a specification does not use *)

NoCall == [output_directory |-> "", ssp_filter |-> NoneVal, use_concurrency |-> FALSE]
NoFn == [op |-> "none", args |-> <<>>, ret |-> <<>>, done |-> TRUE]
NoRun == [done |-> FALSE, files |-> {}, written |-> <<>>]

BatchIdle ==
    /\ call = NoCall
    /\ phase = "off"
    /\ scenarios = <<>>
    /\ task = <<>>
    /\ generated_files = <<>>
    /\ firstRun = NoRun
    /\ outFiles = <<>>
    /\ faultOf = <<>>

ExtractorIdle ==
    /\ srcFiles = <<>>
    /\ cache = <<>>
    /\ reads = <<>>
    /\ client = <<>>
    /\ lastSeen = <<>>
    /\ touched = <<>>

batchVars == <<call, phase, scenarios, task, generated_files, firstRun, outFiles, faultOf>>
extractorVars == <<srcFiles, cache, reads, client, lastSeen, touched>>

-----------------------------------------------------------------------------
(* Single applications of the pure operations *)

Pending(op, args) == [op |-> op, args |-> args, ret |-> <<>>, done |-> FALSE]

PureInit ==
    /\ BatchIdle
    /\ ExtractorIdle
    /\ \/ /\ fn \in {Pending("name", t) : t \in DomainTuples}
          /\ parameters = DefaultParameters
          /\ heap = (TemplateRef :> FullTemplate)
       \/ /\ fn \in {Pending("combinations", f) : f \in FilterChoices}
          /\ parameters \in ParameterChoices
          /\ heap = (TemplateRef :> FullTemplate)
       \/ /\ fn \in {Pending("create", <<NameOf(<<ssp, rcp, 25, "Basic", "Low", "Regulatory">>),
                                           rcp, ssp>>) :
                        ssp \in Range(DefaultSsps) \cup {"SSP9"}, rcp \in Range(DefaultRcps)}
          /\ parameters = DefaultParameters
          /\ \E tmpl \in Templates : heap = (TemplateRef :> tmpl)
       \/ /\ fn \in {Pending("append", es) : es \in EntryLists}
          /\ parameters = DefaultParameters
          /\ \E tmpl \in Templates : heap = (TemplateRef :> tmpl) @@ (1 :> tmpl)

NameCall ==
    /\ fn.op = "name" /\ ~fn.done
    /\ fn' = [fn EXCEPT !.ret = NameOf(fn.args), !.done = TRUE]
    /\ UNCHANGED <<parameters, heap, batchVars, extractorVars>>

CombinationsCall ==
    /\ fn.op = "combinations" /\ ~fn.done
    /\ fn' = [fn EXCEPT !.ret = _generate_combinations(parameters, fn.args), !.done = TRUE]
    /\ UNCHANGED <<parameters, heap, batchVars, extractorVars>>

CreateCall ==
    /\ fn.op = "create" /\ ~fn.done
    /\ LET r == create_scenario_config(heap, 1, fn.args[1], fn.args[2], fn.args[3])
       IN  /\ heap' = r.heap
           /\ fn' = [fn EXCEPT !.ret = r.ref, !.done = TRUE]
    /\ UNCHANGED <<parameters, batchVars, extractorVars>>

AppendCall ==
    /\ fn.op = "append" /\ ~fn.done
    /\ heap' = append_ssp_components(heap, 1, fn.args)
    /\ fn' = [fn EXCEPT !.ret = 1, !.done = TRUE]
    /\ UNCHANGED <<parameters, batchVars, extractorVars>>

PureNext == NameCall \/ CombinationsCall \/ CreateCall \/ AppendCall

SpecPure == PureInit /\ [][PureNext]_vars

-----------------------------------------------------------------------------
(* Threads calling extract_ssp_components on extractors that share one          *)
(* directory; the lru_cache belongs to the method, so to all the instances     *)

\* a well-formed source file of a pathway: two usable Value elements, one
\* without text and one without a name, and a comment under the root
SspFile(ssp) ==
    SourceFile(TRUE, TRUE,
               <<[name |-> "socioeconomics", text |-> " ../input/" \o ssp \o "/socio.xml "],
                 [name |-> "unused", text |-> ""],
                 [name |-> "", text |-> "../input/unnamed.xml"],
                 [name |-> "land", text |-> "../input/" \o ssp \o "/land.xml"]>>,
               <<"Land-Use Files">>)

\* a well-formed source file without any Value element
EmptyFile == SourceFile(TRUE, TRUE, <<>>, <<"nothing here">>)

NumExtractors == 2
NumClients == 2
NumRepeated == 1

CacheSsps == DefaultSsps \o <<"SSP6">>

\* the keys in the order in which they are first called
KeyOrder ==
    Flatten([inst \in 1..NumExtractors |->
                [i \in 1..Len(CacheSsps) |-> CacheKey(inst, CacheSsps[i])]])

\* keys that are called again and again; every other key is called once
RepeatedKeys == {KeyOrder[i] : i \in 1..NumRepeated}

Introduced ==
    DOMAIN lastSeen \cup {client[t].key : t \in {u \in DOMAIN client : client[u].pc # "idle"}}

\* the calls for keys that are called once do not overlap one another
Callable ==
    LET fresh == {i \in 1..Len(KeyOrder) : KeyOrder[i] \notin Introduced}
        busy == \E t \in DOMAIN client :
                    client[t].pc # "idle" /\ client[t].key \notin RepeatedKeys
    IN  RepeatedKeys \cup
        (IF fresh = {} \/ busy THEN {}
         ELSE {KeyOrder[CHOOSE i \in fresh : \A j \in fresh : i <= j]})

IdleClient ==
    [pc |-> "idle", key |-> CacheKey(0, ""), later |-> FALSE, recent |-> FALSE]

\* key was just used (hit, or stored): it is the most recent one
Use(tch, key) == [k \in DOMAIN tch |-> IF k = key THEN {} ELSE tch[k] \cup {key}]

\* a call for key returned val; gap is the number of other keys used since the
\* key's last use if the cache served it, and -1 if the file was read
Returned(seen, key, val, gap) ==
    [k \in DOMAIN seen \cup {key} |->
        IF k = key THEN [val |-> val, gap |-> gap] ELSE seen[k]]

Gap(tch, key) == IF key \in DOMAIN tch THEN Cardinality(tch[key]) ELSE 0

CacheInit ==
    /\ BatchIdle
    /\ fn = NoFn
    /\ parameters = DefaultParameters
    /\ heap = (TemplateRef :> FullTemplate)
    /\ \E f \in {SspFile("SSP1"), MissingFile, MalformedFile, EmptyFile} :
           srcFiles = [s \in Range(CacheSsps) |-> IF s = "SSP1" THEN f ELSE SspFile(s)]
    /\ cache = <<>>
    /\ reads = [s \in Range(CacheSsps) |-> 0]
    /\ client = [t \in 1..NumClients |-> IdleClient]
    /\ lastSeen = <<>>
    /\ touched = [k \in RepeatedKeys |-> {}]

\* the wrapper of lru_cache up to the call of the wrapped function: a hit
\* returns the cached entries at once
CallLookup(t, key) ==
    /\ client[t].pc = "idle"
    /\ key \in Callable
    /\ IF CacheHas(cache, key)
       THEN /\ cache' = CacheTouch(cache, key)
            /\ lastSeen' = Returned(lastSeen, key, CacheVal(cache, key), Gap(touched, key))
            /\ touched' = Use(touched, key)
            /\ UNCHANGED client
       ELSE /\ client' = [client EXCEPT ![t] =
                [IdleClient EXCEPT
                    !.pc = "reading",
                    !.key = key,
                    !.later = key \in DOMAIN lastSeen,
                    !.recent = key \in DOMAIN touched
                                   /\ Cardinality(touched[key]) < Maxsize]]
            /\ UNCHANGED <<cache, lastSeen, touched>>
    /\ UNCHANGED <<srcFiles, reads, parameters, heap, fn, batchVars>>

\* the wrapped function reads and parses the source file, and the wrapper of
\* lru_cache stores what it returned (the files do not change meanwhile)
CallReturn(t) ==
    /\ client[t].pc = "reading"
    /\ LET key == client[t].key
           val == ReadSspFile(srcFiles[key[2]])
       IN  /\ reads' = [reads EXCEPT ![key[2]] = @ + 1]
           /\ cache' = CacheStore(cache, key, val)
           /\ touched' = IF CacheHas(cache, key) THEN touched ELSE Use(touched, key)
           /\ lastSeen' = Returned(lastSeen, key, val, -1)
    /\ client' = [client EXCEPT ![t] = IdleClient]
    /\ UNCHANGED <<srcFiles, parameters, heap, fn, batchVars>>

CacheNext ==
    \E t \in 1..NumClients :
        \/ \E key \in Range(KeyOrder) : CallLookup(t, key)
        \/ CallReturn(t)

SpecCache == CacheInit /\ [][CacheNext]_vars

\* a call that began after a call for its key had returned is reading the file
ReadsAgain(t) == client[t].pc # "idle" /\ client[t].later

\* the entries returned for a key are those every earlier call for it returned
SameEntries ==
    \A k \in DOMAIN lastSeen : k \in DOMAIN lastSeen' /\ lastSeen'[k].val = lastSeen[k].val

\* C7 (as claimed): a call for a key that begins after a call for that key has
\* returned gets the same entries without reading the source file, however
\* many other keys were called in between.
C7_NeverReadAgain == \A t \in DOMAIN client : ~ReadsAgain(t)

\* C7 (amended): every call returns the entries every earlier call for its key
\* returned (racing first calls included), and a call that begins after a call
\* for its key has returned, and before 10 other distinct keys (extractor, id)
\* were used since the key was last stored or hit, is served from the cache
\* without reading the source file.
C7_CachedWhileRecent ==
    /\ [](\A t \in DOMAIN client : ~(ReadsAgain(t) /\ client[t].recent))
    /\ [][SameEntries]_vars

\* a repeated key was just served from the full cache after nine other keys
\* were used since its last use, its file having been read by two racing calls
C7_Witness ==
    \E k \in RepeatedKeys :
        /\ k \in DOMAIN lastSeen
        /\ lastSeen[k].gap = Maxsize - 1
        /\ Len(cache) = Maxsize
        /\ cache[Maxsize].key = k
        /\ reads[k[2]] = NumClients

-----------------------------------------------------------------------------
(* The batch driver: generate_all_configs, called twice by one caller on the  *)
(* same generator, once in each execution mode, the output directory being    *)
(* emptied in between                                                          *)

MaxWorkers == 8

Min(a, b) == IF a <= b THEN a ELSE b

\* mutant: one worker per task, without the cap
max_workers_uncapped(scens) == Len(scens)

max_workers(scens) == Min(MaxWorkers, Len(scens))

\* the branch generate_all_configs takes
UsesPool(use_concurrency, scens) == use_concurrency /\ Len(scens) > 1

\* str(output_path / f"{scenario_name}.xml")
PathOf(dir, name) == dir \o "/" \o name \o ".xml"

NoPath == [none |-> TRUE, path |-> ""]
SomePath(path) == [none |-> FALSE, path |-> path]

\* config_root of a pipeline that holds no document (yet, or any more)
NoRef == -1

QueuedTask == [pc |-> "queued", runs |-> 0, root |-> NoRef, xml |-> "", result |-> NoPath]

\* the root a finished pipeline held is garbage; the manager keeps the template
Release(h, ref) ==
    IF ref = TemplateRef THEN h ELSE [r \in DOMAIN h \ {ref} |-> h[r]]

Running(i) == task[i].pc \in {"reading", "serialized"}
RunningTasks == {i \in DOMAIN task : Running(i)}
Done(i) == task[i].pc = "done"

\* the worker threads take the work items in submission order; the sequential
\* loop calls the pipeline of one tuple after the other has returned
MayStart(i) ==
    /\ task[i].pc = "queued"
    /\ \A j \in 1..(i - 1) : task[j].pc # "queued"
    /\ IF phase = "concurrent"
       THEN Cardinality(RunningTasks) < max_workers(scenarios)
       ELSE \A j \in 1..(i - 1) : Done(j)

\* `if file_path: generated_files.append(file_path)` of the sequential loop
Collect(files, result) == IF result.none THEN files ELSE Append(files, result.path)

\* the pipeline of tuple i returns: its locals die, and the sequential loop
\* collects at once what it returned
Finish(i, h, root, result) ==
    /\ task' = [task EXCEPT ![i] = [QueuedTask EXCEPT !.pc = "done", !.runs = task[i].runs,
                                                    !.result = result]]
    /\ heap' = Release(h, root)
    /\ generated_files' = IF phase = "sequential" THEN Collect(generated_files, result)
                          ELSE generated_files

\* steps 3 and 4 of _generate_single_scenario and ET.tostring, on the entries
\* the extractor returned
Continue(i, h, root, comps) ==
    IF comps = <<>>
    THEN Finish(i, h, root, NoPath)
    ELSE \E h2 \in {append_ssp_components(h, root, comps)} :
             \E xml_string \in {tostring(h2[root])} :
                 /\ task' = [task EXCEPT ![i].pc = "serialized", ![i].root = root,
                                         ![i].xml = xml_string]
                 /\ heap' = h2
                 /\ UNCHANGED generated_files

\* generate_all_configs up to the branch on the execution mode
GenerateAllConfigs ==
    /\ phase = "ready"
    /\ LET scens == _generate_combinations(parameters, call.ssp_filter)
       IN  /\ scenarios' = scens
           /\ task' = [i \in 1..Len(scens) |-> QueuedTask]
           /\ phase' = IF UsesPool(call.use_concurrency, scens) THEN "concurrent"
                       ELSE "sequential"
    /\ generated_files' = <<>>
    /\ UNCHANGED <<parameters, srcFiles, cache, reads, heap, outFiles, faultOf, call,
                   firstRun, client, lastSeen, touched, fn>>

\* _generate_single_scenario from its start to the call of the extractor's
\* wrapped function; a cache hit takes it on to the serialized document
TaskStart(i) ==
    /\ phase \in {"sequential", "concurrent"}
    /\ MayStart(i)
    /\ LET t == scenarios[i]
           c == create_scenario_config(heap, i, NameOf(t), t[2], t[1])
           key == CacheKey(1, t[1])
           started == [task EXCEPT ![i].runs = @ + 1]
       IN  IF CacheHas(cache, key)
           THEN /\ cache' = CacheTouch(cache, key)
                /\ IF CacheVal(cache, key) = <<>>
                   THEN /\ task' = [started EXCEPT ![i].pc = "done"]
                        /\ heap' = Release(c.heap, c.ref)
                        /\ generated_files' = IF phase = "sequential"
                                              THEN Collect(generated_files, NoPath)
                                              ELSE generated_files
                   ELSE \E h2 \in {append_ssp_components(c.heap, c.ref,
                                                          CacheVal(cache, key))} :
                            /\ task' = [started EXCEPT ![i].pc = "serialized",
                                                       ![i].root = c.ref,
                                                       ![i].xml = tostring(h2[c.ref])]
                            /\ heap' = h2
                            /\ UNCHANGED generated_files
           ELSE /\ task' = [started EXCEPT ![i].pc = "reading", ![i].root = c.ref]
                /\ heap' = c.heap
                /\ UNCHANGED <<cache, generated_files>>
    /\ UNCHANGED <<parameters, srcFiles, reads, outFiles, faultOf, call, phase, scenarios,
                   firstRun, client, lastSeen, touched, fn>>

\* the extractor's wrapped function returns and lru_cache stores its result;
\* then steps 3 and 4 and ET.tostring
TaskExtract(i) ==
    /\ task[i].pc = "reading"
    /\ \E ssp \in {scenarios[i][1]} :
           \E val \in {ReadSspFile(srcFiles[ssp])} :
               /\ reads' = [reads EXCEPT ![ssp] = @ + 1]
               /\ cache' = CacheStore(cache, CacheKey(1, ssp), val)
               /\ Continue(i, heap, task[i].root, val)
    /\ UNCHANGED <<parameters, srcFiles, outFiles, faultOf, call, phase, scenarios,
                   firstRun, client, lastSeen, touched, fn>>

\* what a failed f.write may leave in the file it had opened
PartialContents(xml) == {"", SubSeq(xml, 1, Len(xml) \div 2)}

\* step 5: open(output_file, "w") and f.write(xml_string)
TaskWrite(i) ==
    /\ task[i].pc = "serialized"
    /\ LET path == PathOf(call.output_directory, NameOf(scenarios[i]))
       IN  CASE faultOf[path] = "open" ->
                    /\ Finish(i, heap, task[i].root, NoPath)
                    /\ UNCHANGED outFiles
             [] faultOf[path] = "write" ->
                    /\ Finish(i, heap, task[i].root, NoPath)
                    /\ \E left \in PartialContents(task[i].xml) :
                           outFiles' = (path :> left) @@ outFiles
             [] OTHER ->
                    /\ Finish(i, heap, task[i].root, SomePath(path))
                    /\ outFiles' = (path :> task[i].xml) @@ outFiles
    /\ UNCHANGED <<parameters, srcFiles, cache, reads, faultOf, call, phase, scenarios,
                   firstRun, client, lastSeen, touched, fn>>

\* mutant: the first pipeline that fails ends the loop over the tuples
UntilFirstFailure(tasks) ==
    \/ \A i \in DOMAIN tasks : tasks[i].pc = "done"
    \/ \E i \in DOMAIN tasks : tasks[i].pc = "done" /\ tasks[i].result.none

\* the loop over the tuples (over their futures) ends when each has been handled,
\* whatever its pipeline returned
LoopOver(tasks) == \A i \in DOMAIN tasks : tasks[i].pc = "done"

\* _generate_sequential returns generated_files
ReturnSequential ==
    /\ phase = "sequential"
    /\ LoopOver(task)
    /\ phase' = "returned"
    /\ UNCHANGED <<parameters, srcFiles, cache, reads, heap, outFiles, faultOf, call,
                   scenarios, task, generated_files, firstRun, client, lastSeen, touched, fn>>

\* the orders in which as_completed may hand over the futures of a set of tasks
Orders(S) == {o \in [1..Cardinality(S) -> S] : \A a, b \in DOMAIN o : a # b => o[a] # o[b]}

\* _generate_concurrent: the as_completed loop has collected every future and
\* the executor has shut down. The loop's list is local to the main thread, so
\* the whole collection is one step, in one of the possible completion orders.
ReturnConcurrent ==
    /\ phase = "concurrent"
    /\ LoopOver(task)
    /\ \E o \in Orders({i \in DOMAIN task : ~task[i].result.none}) :
           generated_files' = [j \in DOMAIN o |-> task[o[j]].result.path]
    /\ phase' = "returned"
    /\ UNCHANGED <<parameters, srcFiles, cache, reads, heap, outFiles, faultOf, call,
                   scenarios, task, firstRun, client, lastSeen, touched, fn>>

\* the caller keeps what the first call returned and wrote, empties the output
\* directory and calls again with the other execution mode
SecondCall ==
    /\ phase = "returned"
    /\ ~firstRun.done
    /\ firstRun' = [done |-> TRUE, files |-> Range(generated_files), written |-> outFiles]
    /\ outFiles' = <<>>
    /\ call' = [call EXCEPT !.use_concurrency = ~call.use_concurrency]
    /\ phase' = "ready"
    /\ UNCHANGED <<parameters, srcFiles, cache, reads, heap, faultOf, scenarios, task,
                   generated_files, client, lastSeen, touched, fn>>

BatchNext ==
    \/ GenerateAllConfigs
    \/ \E i \in DOMAIN task : TaskStart(i)
    \/ \E i \in DOMAIN task : TaskExtract(i)
    \/ \E i \in DOMAIN task : TaskWrite(i)
    \/ ReturnSequential
    \/ ReturnConcurrent
    \/ SecondCall

BatchTemplates == {FullTemplate, [FullTemplate EXCEPT !.ScenarioComponents = Absent]}

\* the paths the tuples of a parameter set are written to
PathsOf(p, dir) ==
    LET all == _generate_combinations(p, NoneVal)
    IN  {PathOf(dir, NameOf(all[i])) : i \in 1..Len(all)}

\* at most one output file that cannot be opened or cannot be written in full
FaultMaps(paths) ==
    {[q \in paths |-> "none"]} \cup
    {[q \in paths |-> IF q = bad THEN kind ELSE "none"] :
        bad \in paths, kind \in {"open", "write"}}

\* every output file can be opened and written
NoFaults(paths) == {[q \in paths |-> "none"]}

\* each pathway's source file as the repository ships it, and a directory
\* without any
PresentFiles == [s \in Range(DefaultSsps) |-> SspFile(s)]
NoFiles == [s \in Range(DefaultSsps) |-> MissingFile]

BatchInitWith(params, filters, firsts, files1, others, templates, faulty) ==
    /\ fn = NoFn
    /\ client = <<>>
    /\ lastSeen = <<>>
    /\ touched = <<>>
    /\ parameters \in params
    /\ \E f \in files1 :
           srcFiles = [s \in Range(parameters.ssps) |->
                          IF s = "SSP1" THEN f ELSE others[s]]
    /\ cache = <<>>
    /\ reads = [s \in Range(parameters.ssps) |-> 0]
    /\ \E tmpl \in templates : heap = (TemplateRef :> tmpl)
    /\ outFiles = <<>>
    /\ faultOf \in IF faulty THEN FaultMaps(PathsOf(parameters, "out"))
                    ELSE NoFaults(PathsOf(parameters, "out"))
    /\ call \in [output_directory : {"out"}, ssp_filter : filters, use_concurrency : firsts]
    /\ phase = "ready"
    /\ scenarios = <<>>
    /\ task = <<>>
    /\ generated_files = <<>>
    /\ firstRun = NoRun

BatchParameters ==
    {ScenarioParameters(<<"SSP1", "SSP2">>, <<"4p5", "6p0">>, <<25>>, <<"Advanced">>,
                        <<"High">>, <<"Regulatory">>),
     ScenarioParameters(<<"SSP5", "SSP1", "SSP3">>, <<"6p0">>, <<0>>, <<"Basic">>,
                        <<"Low">>, <<"Market-driven">>)}

BatchFilters == {NoneVal, Some(<<>>), Some(<<"SSP1">>), Some(<<"SSP9", "SSP2", "SSP3">>)}

Init ==
    BatchInitWith(BatchParameters, BatchFilters, BOOLEAN,
                  {SspFile("SSP1"), MissingFile, MalformedFile, EmptyFile}, PresentFiles,
                  BatchTemplates, TRUE)

Spec == Init /\ [][BatchNext]_vars

\* nine tuples, so that the pool of eight workers is smaller than the batch; the
\* source file of one pathway only is there and no write fails, which keeps the
\* interleavings few
PoolParameters ==
    {ScenarioParameters(<<"SSP1", "SSP2", "SSP3">>, <<"2p6", "4p5", "6p0">>, <<50>>,
                        <<"Basic">>, <<"Medium">>, <<"Regulatory">>)}

PoolInit ==
    \/ Init
    \/ BatchInitWith(PoolParameters, {NoneVal}, {TRUE}, {SspFile("SSP1")},
                     NoFiles, {FullTemplate}, FALSE)

SpecPool == PoolInit /\ [][BatchNext]_vars

-----------------------------------------------------------------------------
(* Claims about the pure operations, checked under SpecPure *)

\* C5: generate_scenario_name is injective over the defined categorical domains:
\* no tuple of the Cartesian product other than the one named gets the same
\* name, and the names of the tuples one batch enumerates are pairwise different.
C5_NameInjective ==
    /\ (fn.op = "name" /\ fn.done) =>
           \A u \in DomainTuples : NameOf(u) = fn.ret => u = fn.args
    /\ (fn.op = "combinations" /\ fn.done) =>
           Cardinality({NameOf(fn.ret[i]) : i \in 1..Len(fn.ret)}) = Len(fn.ret)

C5_Witness ==
    /\ fn.op = "name" /\ fn.done
    /\ fn.args = <<"SSP5", "6p0", 100, "Advanced", "Medium", "Regulatory">>
    /\ fn.ret = "SSP5_6p0_Tech_M_Reg_PR100"

\* C6 (as claimed): for every supplied ssp_filter, of any length, the tuples
\* enumerated are the product of parameters.ssps restricted to the filter's ids
\* with the five other lists.
C6_FilterRestricts ==
    (fn.op = "combinations" /\ fn.done /\ ~fn.args.none) =>
        fn.ret = Product6(Restrict(parameters.ssps, Range(fn.args.list)),
                          parameters.rcps, parameters.pr_adoption_rates,
                          parameters.technology_levels, parameters.supply_capacities,
                          parameters.allocation_regulations)

AppendedRegion == heap[1].ScenarioComponents.kids
RegionBefore == heap[TemplateRef].ScenarioComponents.kids

\* C8 (amended): on a document that has a components region,
\* append_ssp_components appends exactly one node per input entry, in input
\* order, after the nodes already there; an entry becomes a comment node if its
\* name starts with COMMENT_ and its value starts with "<!--", and a data node
\* with that name and text otherwise.
C8_AppendClassifies ==
    (fn.op = "append" /\ fn.done /\ heap[1].ScenarioComponents.present) =>
        /\ Len(AppendedRegion) = Len(RegionBefore) + Len(fn.args)
        /\ SubSeq(AppendedRegion, 1, Len(RegionBefore)) = RegionBefore
        /\ \A i \in 1..Len(fn.args) :
               LET node == AppendedRegion[Len(RegionBefore) + i]
                   e == fn.args[i]
               IN  IF StartsWith(e[1], "COMMENT_") /\ StartsWith(e[2], "<!--")
                   THEN node.tag = "Comment"
                   ELSE node = Value(e[1], e[2])

\* C8 (as claimed): every entry whose name carries the COMMENT_ prefix becomes a
\* comment node, every other entry a data node.
C8_PrefixDecides ==
    (fn.op = "append" /\ fn.done /\ heap[1].ScenarioComponents.present) =>
        /\ Len(AppendedRegion) = Len(RegionBefore) + Len(fn.args)
        /\ \A i \in 1..Len(fn.args) :
               LET node == AppendedRegion[Len(RegionBefore) + i]
                   e == fn.args[i]
               IN  IF StartsWith(e[1], "COMMENT_")
                   THEN node.tag = "Comment"
                   ELSE node = Value(e[1], e[2])

C8_Witness ==
    /\ fn.op = "append" /\ fn.done
    /\ fn.args = << <<"COMMENT_land_use", "<!-- Land-Use -->">>,
                    <<"COMMENT_plain", "../input/plain.xml">>,
                    <<"COMMENT_land_use", "<!-- Land-Use -->">> >>
    /\ AppendedRegion = <<Value("base", "../input/base.xml"),
                          Comment(" Land-Use "),
                          Value("COMMENT_plain", "../input/plain.xml"),
                          Comment(" Land-Use ")>>

\* the policy codes as the claim lists them
ClaimedSpaCode(ssp, rcp) ==
    CASE ssp \in {"SSP2", "SSP3"} -> IF rcp = "6p0" THEN "235" ELSE "23"
      [] ssp = "SSP5" -> IF rcp = "6p0" THEN "0" ELSE "5"
      [] ssp = "SSP1" -> "1"
      [] ssp = "SSP4" -> "4"
      [] OTHER -> "0"

PolicyTargets(doc) ==
    {i \in 1..Len(doc.Files.kids) :
        doc.Files.kids[i].tag = "Value" /\ doc.Files.kids[i].name = "policy-target-file"}

\* C9: _get_spa_code resolves every (ssp, rcp) to the code the claim lists, and
\* the policy-file reference create_scenario_config patches is built from the
\* rcp and that code.
C9_SpaCode ==
    (fn.op = "create" /\ fn.done) =>
        LET rcp == fn.args[2]
            ssp == fn.args[3]
        IN  /\ _get_spa_code(ssp, rcp) = ClaimedSpaCode(ssp, rcp)
            /\ \A i \in PolicyTargets(heap[fn.ret]) :
                   heap[fn.ret].Files.kids[i].text =
                       "../input/policy/policy_target_" \o rcp \o "_spa"
                           \o ClaimedSpaCode(ssp, rcp) \o ".xml"

C9_Witness ==
    /\ fn.op = "create" /\ fn.done
    /\ fn.args[2] = "6p0" /\ fn.args[3] = "SSP5"
    /\ \E i \in PolicyTargets(heap[fn.ret]) :
           heap[fn.ret].Files.kids[i].text = "../input/policy/policy_target_6p0_spa0.xml"

-----------------------------------------------------------------------------
(* Claims about the batch driver, checked under Spec and SpecPool *)

TaskPath(i) == PathOf(call.output_directory, NameOf(scenarios[i]))

BothModesRan == phase = "returned" /\ firstRun.done

\* C1: the call in sequential mode and the call in concurrent mode, on the same
\* parameters, template, source files, filter and environment, return the same
\* set of paths and write the same content to each of them, whatever the
\* interleaving of the worker threads.
C1_ModesAgree ==
    BothModesRan =>
        /\ Range(generated_files) = firstRun.files
        /\ \A q \in firstRun.files :
               /\ q \in DOMAIN outFiles
               /\ q \in DOMAIN firstRun.written
               /\ outFiles[q] = firstRun.written[q]

\* the pool ran first, two of its threads read one source file at the same
\* time, and three files or more came out of both calls
C1_Witness ==
    /\ BothModesRan
    /\ ~call.use_concurrency
    /\ Cardinality(firstRun.files) >= 3
    /\ \E s \in DOMAIN reads : reads[s] >= 2

\* the pipeline of tuple i has nothing to fail on: its source file yields
\* entries and its output file can be opened and written
OwnPipelineSucceeds(i) ==
    /\ ReadSspFile(srcFiles[scenarios[i][1]]) # <<>>
    /\ faultOf[TaskPath(i)] = "none"

\* C2: when generate_all_configs returns, in either mode, every enumerated
\* tuple has been processed, once, and the returned list holds exactly the
\* paths of the tuples whose own pipeline succeeds, each once.
C2_FailureIsolated ==
    phase = "returned" =>
        /\ DOMAIN task = DOMAIN scenarios
        /\ \A i \in DOMAIN task :
               /\ task[i].pc = "done" /\ task[i].runs = 1
               /\ OwnPipelineSucceeds(i) <=> TaskPath(i) \in Range(generated_files)
        /\ Len(generated_files) =
               Cardinality({i \in DOMAIN task : OwnPipelineSucceeds(i)})

\* the pool has returned from a batch in which one tuple failed on its source
\* file, another on writing its file, and a third succeeded
C2_Witness ==
    /\ phase = "returned"
    /\ call.use_concurrency /\ Len(scenarios) > 1
    /\ \E i, j, k \in DOMAIN task :
           /\ ReadSspFile(srcFiles[scenarios[i][1]]) = <<>>
           /\ faultOf[TaskPath(j)] = "write"
           /\ ReadSspFile(srcFiles[scenarios[j][1]]) # <<>>
           /\ TaskPath(k) \in Range(generated_files)

\* C3 (as claimed): when generate_all_configs returns, the output directory
\* holds the file of a tuple if and only if its path is in the returned list.
C3_FilesAreReturned ==
    phase = "returned" =>
        \A i \in DOMAIN task :
            TaskPath(i) \in DOMAIN outFiles <=> TaskPath(i) \in Range(generated_files)

\* the document create_scenario_config returns for a tuple, as the claim has it:
\* the loaded template with its three fields set
PatchedTemplate(tmpl, t) ==
    [tmpl EXCEPT
        !.Strings = Section(<<Value("scenarioName", NameOf(t))>>),
        !.Files = Section(<<Value("xmldb-location", "../output/db_" \o NameOf(t)),
                            Value("policy-target-file",
                                  "../input/policy/policy_target_" \o t[2] \o "_spa"
                                      \o ClaimedSpaCode(t[1], t[2]) \o ".xml")>>)]

\* C4: the canonical template is never changed, and the document of every
\* running pipeline is the one made from the unchanged template and its own
\* tuple alone: before its append it has the template's components, whatever
\* the other pipelines have patched or appended meanwhile.
C4_TemplateUntouched ==
    /\ heap[TemplateRef] \in BatchTemplates
    /\ \A i \in DOMAIN task :
           /\ Running(i) => task[i].root # TemplateRef /\ task[i].root \in DOMAIN heap
           /\ task[i].pc = "reading" =>
                  heap[task[i].root] = PatchedTemplate(heap[TemplateRef], scenarios[i])
           /\ task[i].pc = "serialized" =>
                  /\ heap[task[i].root].Strings =
                         PatchedTemplate(heap[TemplateRef], scenarios[i]).Strings
                  /\ heap[task[i].root].Files =
                         PatchedTemplate(heap[TemplateRef], scenarios[i]).Files
                  /\ task[i].xml = tostring(heap[task[i].root])

\* one pipeline holds its patched copy before the append while another one has
\* appended to its own copy
C4_Witness ==
    /\ phase = "concurrent"
    /\ \E i, j \in DOMAIN task :
           /\ task[i].pc = "reading" /\ task[j].pc = "serialized"
           /\ Len(heap[task[j].root].ScenarioComponents.kids)
                  > Len(heap[task[i].root].ScenarioComponents.kids)

\* the paths of the finished pipelines that returned one, in enumeration order
RECURSIVE InOrder(_)
InOrder(n) ==
    IF n = 0 THEN <<>>
    ELSE InOrder(n - 1) \o (IF Done(n) /\ ~task[n].result.none
                            THEN <<task[n].result.path>> ELSE <<>>)

\* C10: in the pool at most min(8, number of tuples) pipelines execute at a
\* time, every tuple is submitted once and run at most once, and a pipeline
\* that executes can always take its next step; in sequential mode (chosen
\* when use_concurrency is False or there is at most one tuple) the pipelines
\* run one at a time in enumeration order and the list follows that order.
C10_PoolBounded ==
    /\ DOMAIN task = DOMAIN scenarios
    /\ \A i \in DOMAIN task :
           /\ task[i].runs = IF task[i].pc = "queued" THEN 0 ELSE 1
    /\ phase = "concurrent" =>
           /\ call.use_concurrency /\ Len(scenarios) > 1
           /\ Cardinality(RunningTasks) <= (IF Len(scenarios) < 8 THEN Len(scenarios) ELSE 8)
           /\ \A i \in RunningTasks : ENABLED (TaskExtract(i) \/ TaskWrite(i))
    /\ phase = "sequential" =>
           /\ ~call.use_concurrency \/ Len(scenarios) <= 1
           /\ Cardinality(RunningTasks) <= 1
           /\ \A i \in DOMAIN task :
                  task[i].pc # "queued" => \A j \in 1..(i - 1) : Done(j)
           /\ generated_files = InOrder(Len(task))

\* eight pipelines execute and the ninth tuple waits for a worker
C10_Witness ==
    /\ phase = "concurrent"
    /\ Cardinality(RunningTasks) = MaxWorkers
    /\ \E i \in DOMAIN task : task[i].pc = "queued"

====
